---- MODULE Spec2Model ----
(***************************************************************************)
(* Patched execution of algebraic_value_editing/completion_utils.py:       *)
(* gen_using_hooks under its preserve_rng_state wrapper, run step by step  *)
(* against one shared model object (its attached hooks) and the global     *)
(* torch RNG.  logging.loggable is called with log=False and passes the    *)
(* call and its result through unchanged.                                  *)
(***************************************************************************)
EXTENDS Integers, Sequences, FiniteSets, TLC

\* ---------------------------------------------------------------- bounds
MaxBodyLen == 3
MaxRows == 4
MaxDescriptors == 2
MaxSeqLen == 3
MaxEos == 2
MaxBatch == 2
MaxNewTokens == 2
RngMod == 3

\* ------------------------------------------------------- the input space
\* The tokenizer's vocabulary; token id i decodes to Vocab[i].  GPT-2 uses
\* one token, <|endoftext|>, as BOS, EOS and padding.
Vocab == <<"<|endoftext|>", " a", " b">>
EndOfText == CHOOSE i \in 1..Len(Vocab) : Vocab[i] = "<|endoftext|>"
BOS == EndOfText
EOS == EndOfText
PAD == EndOfText

\* Prompt strings, as their sequence of string pieces.
Prompts == {<<" a">>, <<" b", " a">>}

\* Injection sites and patch functions a hook map may hold.
Sites == {"blocks.0.hook_resid_pre", "blocks.6.hook_resid_pre"}
OrderedDicts ==
    {<<>>}
    \cup {<<[act_name |-> s, hook_fn |-> "patch"]>> : s \in Sites}
    \cup {<<[act_name |-> p[1], hook_fn |-> "patch"],
            [act_name |-> p[2], hook_fn |-> "patch"]>> :
            p \in {q \in Sites \X Sites : q[1] # q[2]}}

\* A hook somebody else left on the model (a manual hook session).
ManualHook == [act_name |-> "blocks.6.hook_resid_pre", hook_fn |-> "manual"]

PromptBatches == UNION {[1..n -> Prompts] : n \in 1..MaxBatch}
\* seed: Optional[int]; <<>> is None.
Seeds == {<<>>, <<0>>, <<1>>}
RngStates == 0..(RngMod - 1)
Exceptions == {"KeyError", "RuntimeError"}

\* ---------------------------------------------------------------- state
VARIABLES
    hooks,              \* hooks attached to the model
    rng,                \* the global torch RNG state
    pc,                 \* position of the call
    rng_state,          \* the wrapper's saved RNG state
    prompt_batch, hook_fns, tokens_to_generate, seed,   \* the arguments
    pending,            \* hook_fns.items() not iterated yet
    tokenized_prompts, completions, loss,
    exc,                \* the exception in flight, or "none"
    outcome,            \* what the caller received
    pre,                \* history: the world when the call was made
    trace               \* history: what the model saw during the call

callVars == <<hooks, rng, pc, rng_state, prompt_batch, hook_fns,
              tokens_to_generate, seed, pending, tokenized_prompts,
              completions, loss, exc, outcome, pre, trace>>

\* The display utilities are pure functions; each is run on its own inputs.
VARIABLES
    eos_pc,             \* _remove_eos: "start" or "done"
    completion,         \* _remove_eos: its argument
    new_completion      \* _remove_eos: its return value

VARIABLES
    again                   \* _remove_eos of new_completion

eosVars == <<eos_pc, completion, new_completion, again>>

VARIABLES
    pp_pc,                  \* pretty_print_completions: position
    results,                \* its argument: the DataFrame
    normal_prompt_override, mod_prompt_override,
    n_rows,                 \* n_rows_mod and n_rows_unmod, once counted
    printed,                \* what print() has been given, in order
    pp_exc                  \* the exception that left the function

ppVars == <<pp_pc, results, normal_prompt_override, mod_prompt_override,
            n_rows, printed, pp_exc>>

VARIABLES
    hc_pc,                  \* hook compiler: position
    rich_prompts,           \* the Intervention Descriptors, in order
    addition_location,      \* "front" or "back"
    res_stream_slice,       \* the position-range restriction
    compiled,               \* the hook map: site -> patch function
    resid_pre,              \* the site and activation a hook is invoked on
    patched                 \* the activation the hook returned

hcVars == <<hc_pc, rich_prompts, addition_location, res_stream_slice,
            compiled, resid_pre, patched>>

VARIABLES
    xv_pc,                  \* get_x_vector: "start" or "done"
    xv_args,                \* its arguments
    x_vector                \* the descriptors it returned, in order

xvVars == <<xv_pc, xv_args, x_vector>>

VARIABLES
    sw_pc,                  \* make_rich_prompts: "start" or "done"
    sw_args,                \* its arguments
    rich_prompts_df         \* the table it returned

swVars == <<sw_pc, sw_args, rich_prompts_df>>

VARIABLES
    last                    \* the call before this one, when it is kept

twVars == <<last>>

VARIABLES
    il_hooks,               \* interleaved calls: hooks on the shared model
    il_pc,                  \* position of each call
    il_hook_fns,            \* hook_fns of each call
    il_pending,             \* items of hook_fns each call has yet to attach
    il_gen_hooks,           \* hooks on the model when each call generated
    il_alone,               \* no other call ran since this call began
    il_initial              \* hooks on the model before any call

ilVars == <<il_hooks, il_pc, il_hook_fns, il_pending, il_gen_hooks, il_alone,
            il_initial>>

VARIABLES
    pnc_pc,                 \* print_n_comparisons: position
    pnc_args,               \* its arguments
    data_frames,            \* data_frames
    runs                    \* the gen_using_hooks calls it made, in order

pncVars == <<pnc_pc, pnc_args, data_frames, runs>>

lateVars == <<swVars, twVars, ilVars, pncVars>>

otherVars == <<eosVars, ppVars, hcVars, xvVars, lateVars>>

vars == <<callVars, otherVars>>

NoOutcome == [kind |-> "none", exc |-> "none", results |-> <<>>]
NoPre == [rng |-> 0, hooks |-> {}, prompt_batch |-> <<>>, hook_fns |-> <<>>]
NoTrace == [raised |-> "none", raised_at |-> "none", generated |-> FALSE,
            gen_hooks |-> {}, new_tokens |-> <<>>, forwarded |-> FALSE,
            loss_hooks |-> {}, loss_input |-> <<>>,
            gen_calls |-> <<>>, fwd_calls |-> <<>>]

\* ------------------------------------------------------ the torch RNG
Advance(r) == (r + 1) % RngMod

RECURSIVE AdvanceBy(_, _)
AdvanceBy(r, n) == IF n = 0 THEN r ELSE AdvanceBy(Advance(r), n - 1)

manual_seed(s) == (2 * s + 1) % RngMod

\* A faulty variant of seeded_rng: the seed is ignored.
seeded_rng_unseeded(sd, r) == r

\* if seed is not None: t.manual_seed(seed)
seeded_rng(sd, r) == IF sd # <<>> THEN manual_seed(sd[1]) ELSE r

\* ------------------------------------------------------ the tokenizer
TokId(piece) == CHOOSE i \in 1..Len(Vocab) : Vocab[i] = piece

Max(S) == CHOOSE m \in S : \A x \in S : x <= m

Encode(prompt) == <<BOS>> \o [j \in 1..Len(prompt) |-> TokId(prompt[j])]

PadTo(row, w) == row \o [j \in 1..(w - Len(row)) |-> PAD]

\* model.to_tokens: BOS prepended, rows right-padded to the widest prompt.
to_tokens(batch) ==
    LET w == Max({Len(Encode(batch[i])) : i \in 1..Len(batch)})
    IN  [i \in 1..Len(batch) |-> PadTo(Encode(batch[i]), w)]

Width(tokens) == Len(tokens[1])

\* model.to_string on a batch: one string per row.
to_string(tokens) ==
    [i \in 1..Len(tokens) |-> [j \in 1..Len(tokens[i]) |-> Vocab[tokens[i][j]]]]

\* ------------------------------------------------------ model.generate
\* The sampled token depends on the context, the hooks that patch the
\* forward pass, and the RNG.
Sample(r, hs, row, i) ==
    ((r + Cardinality(hs) + row[Len(row)] + i) % Len(Vocab)) + 1

\* The sampling loop: `new' collects what each row was given, so that
\* tokens[i] is always input[i] followed by new[i].
RECURSIVE GenLoop(_, _, _, _, _, _)
GenLoop(tokens, new, finished, r, hs, left) ==
    IF left = 0 \/ (\A i \in 1..Len(tokens) : finished[i])
    THEN [tokens |-> tokens, new |-> new, rng |-> r]
    ELSE LET sampled == [i \in 1..Len(tokens) |->
                            IF finished[i] THEN PAD
                            ELSE Sample(r, hs, tokens[i], i)]
             fin == [i \in 1..Len(tokens) |-> finished[i] \/ sampled[i] = EOS]
         IN  GenLoop([i \in 1..Len(tokens) |-> Append(tokens[i], sampled[i])],
                     [i \in 1..Len(tokens) |-> Append(new[i], sampled[i])],
                     fin, Advance(r), hs, left - 1)

generate(input, max_new_tokens, r, hs) ==
    GenLoop(input, [i \in 1..Len(input) |-> <<>>],
            [i \in 1..Len(input) |-> FALSE], r, hs, max_new_tokens)

\* A faulty variant of generate_inputs: one model.generate call per prompt.
generate_inputs_one_at_a_time(tp) == [i \in 1..Len(tp) |-> <<tp[i]>>]

\* The inputs model.generate is invoked with, in order: the whole batch,
\* once.
generate_inputs(tp) == <<tp>>

\* The invocations of model.generate of one call, run in order on the
\* shared RNG; the rows they return are collected in order.
RECURSIVE GenAll(_, _, _, _)
GenAll(inputs, max_new_tokens, r, hs) ==
    IF inputs = <<>>
    THEN [tokens |-> <<>>, new |-> <<>>, rng |-> r]
    ELSE LET g == generate(Head(inputs), max_new_tokens, r, hs)
             rest == GenAll(Tail(inputs), max_new_tokens, g.rng, hs)
         IN  [tokens |-> g.tokens \o rest.tokens, new |-> g.new \o rest.new,
              rng |-> rest.rng]

BatchSizes(inputs) == [k \in 1..Len(inputs) |-> Len(inputs[k])]

\* ------------------------------------------------ the model's forward
\* Per-token loss of one row: entry p is the loss of predicting token p+1
\* from the tokens up to p, in the model as patched by the hooks hs.
TokLoss(a, b, hs) == ((a + 2 * b + Cardinality(hs)) % 3) + 1

forward_loss_per_token(tokens, hs) ==
    [i \in 1..Len(tokens) |->
        [p \in 1..(Len(tokens[i]) - 1) |->
            TokLoss(tokens[i][p], tokens[i][p + 1], hs)]]

RECURSIVE SumSeq(_)
SumSeq(s) == IF s = <<>> THEN 0 ELSE Head(s) + SumSeq(Tail(s))

\* A mean is kept exact, as the pair (sum, count); count 0 is NaN.
Mean(s) == [sum |-> SumSeq(s), n |-> Len(s)]

SameMean(m1, m2) ==
    /\ (m1.n = 0) = (m2.n = 0)
    /\ m1.sum * m2.n = m2.sum * m1.n

\* ------------------------------------------- gen_using_hooks, its parts
\* einops.reduce(loss, "batch pos -> batch", "mean")
average_loss(l) == [i \in 1..Len(l) |-> Mean(l[i])]

\* A faulty variant of trim: the slice starts one position early.
trim_one_early(row, width) == SubSeq(row, width, Len(row))

\* completions[:, tokenized_prompts.shape[1]:]
trim(row, width) == SubSeq(row, width + 1, Len(row))

trimmed_completions(c, tp) == [i \in 1..Len(c) |-> trim(c[i], Width(tp))]

\* A faulty variant of is_modified: every call is marked as modified.
is_modified_always(hf) == TRUE

\* results["is_modified"] = hook_fns != {}
is_modified(hf) == hf # <<>>

\* A faulty variant of make_results: the prompts column is filled in reverse order.
make_results_reversed(batch, texts, avg, hf) ==
    [i \in 1..Len(batch) |->
        [prompts |-> batch[Len(batch) + 1 - i], completions |-> texts[i],
         loss |-> avg[i], is_modified |-> is_modified(hf)]]

\* A faulty variant of make_results: the spec's singular column names.
make_results_singular(batch, texts, avg, hf) ==
    [i \in 1..Len(batch) |->
        [prompt |-> batch[i], completion |-> texts[i], loss |-> avg[i],
         is_modified |-> is_modified(hf)]]

\* The DataFrame, one record per row.
make_results(batch, texts, avg, hf) ==
    [i \in 1..Len(batch) |->
        [prompts |-> batch[i], completions |-> texts[i], loss |-> avg[i],
         is_modified |-> is_modified(hf)]]

\* A faulty variant of add_hook: the new hook takes the place of the others.
add_hook_replacing(hs, item) == {item}

\* model.add_hook / model.remove_all_hook_fns
add_hook(hs, item) == hs \cup {item}

\* A faulty variant of remove_all_hook_fns: nothing is removed.
remove_no_hook_fns(hs) == hs

\* A faulty variant of remove_all_hook_fns: a hook attached by hand stays.
remove_all_but_manual(hs) == hs \cap {ManualHook}

remove_all_hook_fns(hs) == {}

\* A faulty variant of finally_hooks: cleanup after the call instead of in a finally
\* block, so that it is skipped when an exception is in flight.
finally_hooks_normal_path_only(hs, e) ==
    IF e = "none" THEN remove_all_hook_fns(hs) ELSE hs

\* The finally block: the hooks left on the model, with exception e in
\* flight ("none" on the normal path), and the exception that leaves it.
finally_hooks(hs, e) == remove_all_hook_fns(hs)

\* A faulty variant of reraise: the exception is replaced by a new one.
reraise_as_runtime_error(e) == "RuntimeError"

reraise(e) == e

\* A faulty variant of set_rng_state: the saved state is never put back.
set_rng_state_skipped(saved, current) == current

\* The wrapper's t.random.set_rng_state(rng_state) after a normal return.
set_rng_state(saved, current) == saved

\* The wrapper has no handler: an exception leaves it at once, and the RNG
\* stays as the call left it.
wrapper_on_exception(saved, current) == current

\* --------------------------------------------------------------- Init
CallInit ==
    /\ hooks = {}
    /\ rng \in RngStates
    /\ pc = "idle"
    /\ rng_state = 0
    /\ prompt_batch = <<>>
    /\ hook_fns = <<>>
    /\ tokens_to_generate = 0
    /\ seed = <<>>
    /\ pending = <<>>
    /\ tokenized_prompts = <<>>
    /\ completions = <<>>
    /\ loss = <<>>
    /\ exc = "none"
    /\ outcome = NoOutcome
    /\ pre = NoPre
    /\ trace = NoTrace

\* No call is made: the state of a fresh model, held fixed.
CallOff == CallInit /\ rng = 0

\* _remove_eos is not run.
EosOff ==
    /\ eos_pc = "off"
    /\ completion = <<>>
    /\ new_completion = <<>>
    /\ again = <<>>

\* pretty_print_completions is not run.
PrettyOff ==
    /\ pp_pc = "off"
    /\ results = [columns |-> {}, rows |-> <<>>]
    /\ normal_prompt_override = <<>>
    /\ mod_prompt_override = <<>>
    /\ n_rows = <<>>
    /\ printed = <<>>
    /\ pp_exc = "none"

\* The hook compiler is not run.
HooksOff ==
    /\ hc_pc = "off"
    /\ rich_prompts = <<>>
    /\ addition_location = "front"
    /\ res_stream_slice = [start |-> <<>>, stop |-> <<>>]
    /\ compiled = <<>>
    /\ resid_pre = <<>>
    /\ patched = <<>>

\* get_x_vector is not run.
XVectorOff == xv_pc = "off" /\ xv_args = <<>> /\ x_vector = <<>>

\* make_rich_prompts is not run.
SweepOff == sw_pc = "off" /\ sw_args = <<>> /\ rich_prompts_df = <<>>

\* No earlier call is kept.
TwiceOff == last = <<>>

\* No interleaved calls are made.
InterleavedOff ==
    /\ il_hooks = {}
    /\ il_pc = <<>>
    /\ il_hook_fns = <<>>
    /\ il_pending = <<>>
    /\ il_gen_hooks = <<>>
    /\ il_alone = <<>>
    /\ il_initial = {}

\* print_n_comparisons is not run.
CompareOff ==
    pnc_pc = "off" /\ pnc_args = <<>> /\ data_frames = <<>> /\ runs = <<>>

LateOff == SweepOff /\ TwiceOff /\ InterleavedOff /\ CompareOff

Init == CallInit /\ EosOff /\ PrettyOff /\ HooksOff /\ XVectorOff /\ LateOff

\* ------------------------------------------------------------ actions
\* A caller attaches a hook by hand between calls.
ManualAddHook ==
    /\ pc = "idle"
    /\ ManualHook \notin hooks
    /\ hooks' = add_hook(hooks, ManualHook)
    /\ UNCHANGED <<rng, pc, rng_state, prompt_batch, hook_fns,
                   tokens_to_generate, seed, pending, tokenized_prompts,
                   completions, loss, exc, outcome, pre, trace>>
    /\ UNCHANGED otherVars

\* A caller clears the model's hooks by hand between calls.
ManualRemoveHooks ==
    /\ pc = "idle"
    /\ hooks # {}
    /\ hooks' = remove_all_hook_fns(hooks)
    /\ UNCHANGED <<rng, pc, rng_state, prompt_batch, hook_fns,
                   tokens_to_generate, seed, pending, tokenized_prompts,
                   completions, loss, exc, outcome, pre, trace>>
    /\ UNCHANGED otherVars

\* wrapper entry: rng_state = t.random.get_rng_state(); func(*args)
Call(pb, hf, ttg, sd) ==
    /\ pc = "idle"
    /\ rng_state' = rng
    /\ prompt_batch' = pb
    /\ hook_fns' = hf
    /\ tokens_to_generate' = ttg
    /\ seed' = sd
    /\ pending' = <<>>
    /\ tokenized_prompts' = <<>>
    /\ completions' = <<>>
    /\ loss' = <<>>
    /\ exc' = "none"
    /\ outcome' = NoOutcome
    /\ pre' = [rng |-> rng, hooks |-> hooks, prompt_batch |-> pb,
               hook_fns |-> hf]
    /\ trace' = NoTrace
    /\ pc' = "seed"
    /\ UNCHANGED <<hooks, rng>>
    /\ UNCHANGED otherVars

\* if seed is not None: t.manual_seed(seed)
Seed ==
    /\ pc = "seed"
    /\ rng' = seeded_rng(seed, rng)
    /\ pc' = "tokenize"
    /\ UNCHANGED <<hooks, rng_state, prompt_batch, hook_fns,
                   tokens_to_generate, seed, pending, tokenized_prompts,
                   completions, loss, exc, outcome, pre, trace>>
    /\ UNCHANGED otherVars

\* tokenized_prompts = model.to_tokens(prompt_batch)
Tokenize ==
    /\ pc = "tokenize"
    /\ tokenized_prompts' = to_tokens(prompt_batch)
    /\ pending' = hook_fns
    /\ pc' = "attach"
    /\ UNCHANGED <<hooks, rng, rng_state, prompt_batch, hook_fns,
                   tokens_to_generate, seed, completions, loss, exc, outcome,
                   pre, trace>>
    /\ UNCHANGED otherVars

\* to_tokens raises: outside the try block, the exception leaves the
\* function and the wrapper directly.
TokenizeRaises(e) ==
    /\ pc = "tokenize"
    /\ rng' = wrapper_on_exception(rng_state, rng)
    /\ outcome' = [kind |-> "raised", exc |-> e, results |-> <<>>]
    /\ trace' = [trace EXCEPT !.raised = e, !.raised_at = "to_tokens"]
    /\ pc' = "done"
    /\ UNCHANGED <<hooks, rng_state, prompt_batch, hook_fns,
                   tokens_to_generate, seed, pending, tokenized_prompts,
                   completions, loss, exc, pre>>
    /\ UNCHANGED otherVars

\* for act_name, hook_fn in hook_fns.items(): model.add_hook(...)
AddHook ==
    /\ pc = "attach"
    /\ pending # <<>>
    /\ hooks' = add_hook(hooks, Head(pending))
    /\ pending' = Tail(pending)
    /\ UNCHANGED <<rng, pc, rng_state, prompt_batch, hook_fns,
                   tokens_to_generate, seed, tokenized_prompts, completions,
                   loss, exc, outcome, pre, trace>>
    /\ UNCHANGED otherVars

\* model.add_hook raises inside the try block.
AddHookRaises(e) ==
    /\ pc = "attach"
    /\ pending # <<>>
    /\ exc' = e
    /\ trace' = [trace EXCEPT !.raised = e, !.raised_at = "add_hook"]
    /\ pc' = "finally"
    /\ UNCHANGED <<hooks, rng, rng_state, prompt_batch, hook_fns,
                   tokens_to_generate, seed, pending, tokenized_prompts,
                   completions, loss, outcome, pre>>
    /\ UNCHANGED otherVars

\* completions = model.generate(input=tokenized_prompts, ...)
Generate ==
    /\ pc = "attach"
    /\ pending = <<>>
    /\ LET g == GenAll(generate_inputs(tokenized_prompts),
                       tokens_to_generate, rng, hooks)
       IN  /\ completions' = g.tokens
           /\ rng' = g.rng
           /\ trace' = [trace EXCEPT
                  !.generated = TRUE,
                  !.gen_hooks = hooks,
                  !.new_tokens = g.new,
                  !.gen_calls =
                      BatchSizes(generate_inputs(tokenized_prompts))]
    /\ pc' = "finally"
    /\ UNCHANGED <<hooks, rng_state, prompt_batch, hook_fns,
                   tokens_to_generate, seed, pending, tokenized_prompts, loss,
                   exc, outcome, pre>>
    /\ UNCHANGED otherVars

\* model.generate raises after n sampling steps.
GenerateRaises(e, n) ==
    /\ pc = "attach"
    /\ pending = <<>>
    /\ n <= tokens_to_generate
    /\ rng' = AdvanceBy(rng, n)
    /\ exc' = e
    /\ trace' = [trace EXCEPT !.raised = e, !.raised_at = "generate",
                              !.generated = TRUE, !.gen_hooks = hooks,
                              !.gen_calls = <<Len(tokenized_prompts)>>]
    /\ pc' = "finally"
    /\ UNCHANGED <<hooks, rng_state, prompt_batch, hook_fns,
                   tokens_to_generate, seed, pending, tokenized_prompts,
                   completions, loss, outcome, pre>>
    /\ UNCHANGED otherVars

\* finally: model.remove_all_hook_fns(); then the exception in flight, if
\* any, leaves the function and the wrapper.
Finally ==
    /\ pc = "finally"
    /\ hooks' = finally_hooks(hooks, exc)
    /\ IF exc = "none"
       THEN /\ pc' = "loss"
            /\ UNCHANGED <<rng, outcome>>
       ELSE /\ rng' = wrapper_on_exception(rng_state, rng)
            /\ outcome' = [kind |-> "raised", exc |-> reraise(exc),
                           results |-> <<>>]
            /\ pc' = "done"
    /\ UNCHANGED <<rng_state, prompt_batch, hook_fns, tokens_to_generate,
                   seed, pending, tokenized_prompts, completions, loss, exc,
                   pre, trace>>
    /\ UNCHANGED otherVars

\* loss = model(completions.clone(), return_type="loss", loss_per_token=True)
LossForward ==
    /\ pc = "loss"
    /\ loss' = forward_loss_per_token(completions, hooks)
    /\ trace' = [trace EXCEPT !.forwarded = TRUE, !.loss_hooks = hooks,
                              !.loss_input = completions,
                              !.fwd_calls = <<Len(completions)>>]
    /\ pc' = "results"
    /\ UNCHANGED <<hooks, rng, rng_state, prompt_batch, hook_fns,
                   tokens_to_generate, seed, pending, tokenized_prompts,
                   completions, exc, outcome, pre>>
    /\ UNCHANGED otherVars

\* The loss forward pass raises: after the try block, so the exception
\* leaves the function and the wrapper directly.
LossForwardRaises(e) ==
    /\ pc = "loss"
    /\ rng' = wrapper_on_exception(rng_state, rng)
    /\ outcome' = [kind |-> "raised", exc |-> e, results |-> <<>>]
    /\ trace' = [trace EXCEPT !.raised = e, !.raised_at = "forward",
                              !.forwarded = TRUE, !.loss_hooks = hooks,
                              !.fwd_calls = <<Len(completions)>>]
    /\ pc' = "done"
    /\ UNCHANGED <<hooks, rng_state, prompt_batch, hook_fns,
                   tokens_to_generate, seed, pending, tokenized_prompts,
                   completions, loss, exc, pre>>
    /\ UNCHANGED otherVars

\* Build the DataFrame and return it; the wrapper restores the RNG state.
Return ==
    /\ pc = "results"
    /\ outcome' =
         [kind |-> "returned", exc |-> "none",
          results |->
              make_results(
                  prompt_batch,
                  to_string(trimmed_completions(completions,
                                                tokenized_prompts)),
                  average_loss(loss), hook_fns)]
    /\ rng' = set_rng_state(rng_state, rng)
    /\ pc' = "done"
    /\ UNCHANGED <<hooks, rng_state, prompt_batch, hook_fns,
                   tokens_to_generate, seed, pending, tokenized_prompts,
                   completions, loss, exc, pre, trace>>
    /\ UNCHANGED otherVars

\* The caller is done with the result; the model and the RNG live on.
Forget ==
    /\ pc = "done"
    /\ pc' = "idle"
    /\ rng_state' = 0
    /\ prompt_batch' = <<>>
    /\ hook_fns' = <<>>
    /\ tokens_to_generate' = 0
    /\ seed' = <<>>
    /\ pending' = <<>>
    /\ tokenized_prompts' = <<>>
    /\ completions' = <<>>
    /\ loss' = <<>>
    /\ exc' = "none"
    /\ outcome' = NoOutcome
    /\ pre' = NoPre
    /\ trace' = NoTrace
    /\ UNCHANGED <<hooks, rng>>
    /\ UNCHANGED otherVars

Next ==
    \/ ManualAddHook
    \/ ManualRemoveHooks
    \/ \E pb \in PromptBatches, hf \in OrderedDicts,
          ttg \in 0..MaxNewTokens, sd \in Seeds : Call(pb, hf, ttg, sd)
    \/ Seed
    \/ Tokenize
    \/ \E e \in Exceptions : TokenizeRaises(e)
    \/ AddHook
    \/ \E e \in Exceptions : AddHookRaises(e)
    \/ Generate
    \/ \E e \in Exceptions, n \in 0..MaxNewTokens : GenerateRaises(e, n)
    \/ Finally
    \/ LossForward
    \/ \E e \in Exceptions : LossForwardRaises(e)
    \/ Return
    \/ Forget

Spec == Init /\ [][Next]_vars

\* ------------------------------------------------------------- claims
Returned == pc = "done" /\ outcome.kind = "returned"
Raised == pc = "done" /\ outcome.kind = "raised"
Rows == 1..Len(outcome.results)

\* C1: when a call has ended by returning normally, or by an exception
\* raised while attaching hooks or during model.generate, the model has no
\* attached hooks.
C1_HooksReleased ==
    (pc = "done" /\ trace.raised_at \in {"none", "add_hook", "generate"})
        => hooks = {}

C1_Witness ==
    /\ Raised
    /\ trace.raised_at = "generate"
    /\ pre.hooks # {}
    /\ Len(hook_fns) = 2
    /\ Cardinality(trace.gen_hooks) = 3
    /\ hooks = {}

\* C2: when a call made with a seed returns normally, the global RNG state
\* equals the state right before the call.
C2_RngRestoredOnReturn ==
    (Returned /\ seed # <<>>) => rng = pre.rng

C2_Witness ==
    /\ Returned
    /\ seed # <<>>
    /\ manual_seed(seed[1]) # pre.rng
    /\ \E i \in Rows : trace.new_tokens[i] # <<>>
    /\ rng = pre.rng

\* C3: when a call made with a seed raises, the global RNG state after the
\* exception has left the call equals the state right before the call.
C3_RngRestoredOnRaise ==
    (Raised /\ seed # <<>>) => rng = pre.rng

\* C4: when add_hook or model.generate raises, the caller receives that
\* same exception, the hooks have been removed by then, and no results are
\* returned.
C4_OriginalExceptionAfterCleanup ==
    (pc = "done" /\ trace.raised_at \in {"add_hook", "generate"})
        => /\ outcome.kind = "raised"
           /\ outcome.exc = trace.raised
           /\ outcome.results = <<>>
           /\ hooks = {}

C4_Witness ==
    /\ Raised
    /\ trace.raised_at = "add_hook"
    /\ trace.raised = "KeyError"
    /\ outcome.exc = "KeyError"
    /\ Len(pending) = 1
    /\ Len(hook_fns) = 2
    /\ hooks = {}

\* C5: the loss forward pass runs on a model with no hooks attached, also
\* when hook_fns is non-empty, and the per-token loss is that of the
\* unhooked model.
C5_LossForwardUnhooked ==
    trace.forwarded
        => /\ trace.loss_hooks = {}
           /\ (pc \in {"results", "done"} /\ outcome.kind # "raised")
                  => loss = forward_loss_per_token(completions, {})

C5_Witness ==
    /\ pc = "results"
    /\ trace.forwarded
    /\ hook_fns # <<>>
    /\ trace.gen_hooks # {}
    /\ trace.loss_hooks = {}

\* C6: every row of a call with an empty hook map has is_modified FALSE,
\* and every row of a call with a non-empty hook map has is_modified TRUE.
C6_IsModifiedIsHookMapNonEmpty ==
    Returned
        => \A i \in Rows :
               outcome.results[i].is_modified = (pre.hook_fns # <<>>)

C6_Witness ==
    /\ Returned
    /\ Len(outcome.results) = 2
    /\ pre.hook_fns # <<>>
    /\ \A i \in Rows : outcome.results[i].is_modified

\* C7: whatever hooks the model carried on entry, is_modified of the
\* returned rows is TRUE exactly when some hook was attached to the model
\* while model.generate ran.
C7_IsModifiedIffHookActive ==
    Returned
        => \A i \in Rows :
               outcome.results[i].is_modified = (trace.gen_hooks # {})

\* C8: a successful call returns one row per element of prompt_batch, in
\* order, row i holding prompt_batch[i]; prompt_batch and hook_fns are as
\* they were passed.
C8_OneRowPerPrompt ==
    Returned
        => /\ Len(outcome.results) = Len(pre.prompt_batch)
           /\ \A i \in Rows :
                  outcome.results[i].prompts = pre.prompt_batch[i]
           /\ prompt_batch = pre.prompt_batch
           /\ hook_fns = pre.hook_fns

C8_Witness ==
    /\ Returned
    /\ Len(pre.prompt_batch) = 2
    /\ pre.prompt_batch[1] # pre.prompt_batch[2]
    /\ outcome.results[1].prompts = pre.prompt_batch[1]
    /\ outcome.results[2].prompts = pre.prompt_batch[2]

\* C9: the completion text of each row is the decoding of exactly the
\* tokens model.generate added to that row (at most tokens_to_generate of
\* them), while the loss forward pass was given the tokenized prompt
\* followed by those tokens.
C9_CompletionIsGeneratedSuffix ==
    Returned
        => \A i \in Rows :
               /\ outcome.results[i].completions
                      = to_string(trace.new_tokens)[i]
               /\ Len(outcome.results[i].completions) <= tokens_to_generate
               /\ trace.loss_input[i]
                      = to_tokens(pre.prompt_batch)[i] \o trace.new_tokens[i]

C9_Witness ==
    /\ Returned
    /\ Len(pre.prompt_batch) = 2
    /\ Len(pre.prompt_batch[1]) # Len(pre.prompt_batch[2])
    /\ \A i \in Rows : Len(outcome.results[i].completions) = 2
    /\ \E i \in Rows : outcome.results[i].completions[1] # Vocab[EOS]

\* C10: the loss of each row is the mean of the per-token losses at the
\* generated-token positions only (loss entry p scores token p + 1, so
\* these are the entries from the prompt width on).  Stated for calls that
\* generate at least one token, where that mean is defined.
C10_LossIsMeanOverGenerated ==
    (Returned /\ \A i \in Rows : trace.new_tokens[i] # <<>>)
        => \A i \in Rows :
               SameMean(outcome.results[i].loss,
                        Mean(SubSeq(loss[i], Width(tokenized_prompts),
                                    Len(loss[i]))))

\* C11 (as amended): the result table has exactly the columns prompts,
\* completions, loss and is_modified.
Columns(row) == DOMAIN row

C11_ColumnsPlural ==
    Returned
        => \A i \in Rows :
               Columns(outcome.results[i])
                   = {"prompts", "completions", "loss", "is_modified"}

C11_Witness ==
    /\ Returned
    /\ Len(outcome.results) = 2
    /\ "prompts" \in Columns(outcome.results[2])
    /\ "completions" \in Columns(outcome.results[2])

\* C11 (original): the result table has exactly the columns prompt,
\* completion, loss and is_modified.
C11_ColumnsSingular ==
    Returned
        => \A i \in Rows :
               Columns(outcome.results[i])
                   = {"prompt", "completion", "loss", "is_modified"}

\* C12: a call that returns has invoked model.generate exactly once and the
\* loss forward exactly once, each on the whole prompt batch.
C12_OneGenerateOneForward ==
    Returned
        => /\ trace.gen_calls = <<Len(pre.prompt_batch)>>
           /\ trace.fwd_calls = <<Len(pre.prompt_batch)>>

C12_Witness ==
    /\ Returned
    /\ Len(pre.prompt_batch) = 2
    /\ Len(trace.gen_calls) = 1
    /\ Len(trace.fwd_calls) = 1

\* C13: the results of a call made with a seed are a function of the
\* model's hooks at entry, the prompt batch, the hook map, the token budget
\* and the seed alone, so two such calls that agree on these return the
\* same results whatever the RNG state was before each of them.
SeededResults(hs, pb, hf, ttg, sd) ==
    LET tp == to_tokens(pb)
        attached == hs \cup {hf[k] : k \in 1..Len(hf)}
        g == generate(tp, ttg, manual_seed(sd[1]), attached)
    IN  make_results(pb, to_string(trimmed_completions(g.tokens, tp)),
                     average_loss(forward_loss_per_token(g.tokens, {})), hf)

C13_SeededCallDeterministic ==
    (Returned /\ seed # <<>>)
        => outcome.results
               = SeededResults(pre.hooks, pre.prompt_batch, pre.hook_fns,
                               tokens_to_generate, seed)

C13_Witness ==
    /\ Returned
    /\ seed # <<>>
    /\ pre.rng # manual_seed(seed[1])
    /\ tokens_to_generate = MaxNewTokens
    /\ \E i \in Rows : Len(trace.new_tokens[i]) = MaxNewTokens
                       /\ trace.new_tokens[i][1] # EOS

\* C25: the hooks found on the model at the call are attached while the
\* call generates, also when hook_fns is empty, and once the finally block
\* has run the model holds no hook at all, so hooks that preceded the call
\* are gone after it.
C25_ForeignHooksUsedThenRemoved ==
    /\ trace.generated => pre.hooks \subseteq trace.gen_hooks
    /\ (pc \in {"loss", "results"}
           \/ (pc = "done" /\ trace.raised_at # "to_tokens"))
          => /\ hooks = {}
             /\ pre.hooks # {} => hooks # pre.hooks

C25_Witness ==
    /\ Returned
    /\ hook_fns = <<>>
    /\ pre.hooks = {ManualHook}
    /\ trace.gen_hooks = {ManualHook}
    /\ \E i \in Rows : trace.new_tokens[i] # <<>>
    /\ hooks = {}

\* ====================================================== _remove_eos
\* Strings are sequences of characters.
EosStr == <<"<", "|", "e", "n", "d", "o", "f", "t", "e", "x", "t", "|", ">">>

Chars(str) == {str[j] : j \in 1..Len(str)}

\* str.endswith(suffix)
endswith(str, suffix) ==
    /\ Len(str) >= Len(suffix)
    /\ SubSeq(str, Len(str) - Len(suffix) + 1, Len(str)) = suffix

\* A faulty variant of rstrip: one trailing copy of `chars', as a whole, is
\* removed.
rstrip_one_suffix(str, chars) ==
    IF Len(str) >= Len(chars)
       /\ SubSeq(str, Len(str) - Len(chars) + 1, Len(str)) = chars
    THEN SubSeq(str, 1, Len(str) - Len(chars))
    ELSE str

\* str.rstrip(chars): trailing characters that are in the set `chars' are
\* removed, one by one.
RECURSIVE rstrip(_, _)
rstrip(str, chars) ==
    IF str # <<>> /\ str[Len(str)] \in Chars(chars)
    THEN rstrip(SubSeq(str, 1, Len(str) - 1), chars)
    ELSE str

_remove_eos(c) ==
    LET has_eos == endswith(c, EosStr)
        stripped == rstrip(c, EosStr)
    IN  IF has_eos THEN stripped \o EosStr ELSE stripped

\* The text before the <|endoftext|> strings, over characters inside and
\* outside of "<|endoftext|>".
BodyChars == {"a", " ", "t"}
Bodies == UNION {[1..n -> BodyChars] : n \in 0..MaxBodyLen}

RECURSIVE Repeat(_, _)
Repeat(str, k) == IF k = 0 THEN <<>> ELSE str \o Repeat(str, k - 1)

Completions == {b \o Repeat(EosStr, k) : b \in Bodies, k \in 0..MaxEos}

EosInit ==
    /\ eos_pc = "start"
    /\ completion \in Completions
    /\ new_completion = <<>>
    /\ again = <<>>

RemoveEos ==
    /\ eos_pc = "start"
    /\ new_completion' = _remove_eos(completion)
    /\ eos_pc' = "done"
    /\ UNCHANGED <<callVars, ppVars, hcVars, xvVars, lateVars, completion,
                   again>>

\* _remove_eos applied to what it returned.
RemoveEosAgain ==
    /\ eos_pc = "done"
    /\ again' = _remove_eos(new_completion)
    /\ eos_pc' = "twice"
    /\ UNCHANGED <<callVars, ppVars, hcVars, xvVars, lateVars, completion,
                   new_completion>>

InitEos == CallOff /\ PrettyOff /\ HooksOff /\ XVectorOff /\ LateOff /\ EosInit

NextEos == RemoveEos \/ RemoveEosAgain

SpecEos == InitEos /\ [][NextEos]_vars

\* The completion without its trailing <|endoftext|> strings.
RECURSIVE WithoutTrailingEos(_)
WithoutTrailingEos(str) ==
    IF endswith(str, EosStr)
    THEN WithoutTrailingEos(SubSeq(str, 1, Len(str) - Len(EosStr)))
    ELSE str

\* C16: for a completion that ends with one or more <|endoftext|> strings,
\* _remove_eos returns the text before them, unchanged, followed by exactly
\* one <|endoftext|>.
C16_KeepsBodyAndOneEos ==
    (eos_pc = "done" /\ endswith(completion, EosStr))
        => new_completion = WithoutTrailingEos(completion) \o EosStr

\* C29: a completion that does not end with <|endoftext|> is returned
\* unchanged.
C29_UnchangedWithoutEos ==
    (eos_pc = "done" /\ ~ endswith(completion, EosStr))
        => new_completion = completion

\* C30: _remove_eos applied to its own result returns that result, and no
\* result ends with two <|endoftext|> strings in a row.
C30_Idempotent ==
    /\ eos_pc = "twice" => again = new_completion
    /\ eos_pc \in {"done", "twice"}
           => ~ endswith(new_completion, EosStr \o EosStr)

C30_Witness ==
    /\ eos_pc = "twice"
    /\ endswith(completion, EosStr \o EosStr)
    /\ completion[1] = "a"
    /\ new_completion # completion
    /\ endswith(new_completion, EosStr)
    /\ again = new_completion

\* ========================================== pretty_print_completions
\* A DataFrame is its set of column names and its rows in index order.
AllColumns == {"prompts", "completions", "loss", "is_modified"}
RequiredColumns == {"prompts", "completions", "is_modified"}

normal_title == <<"Unsteered completions">>
mod_title == <<"Steered completions">>

PromptTexts == {<<"p">>, <<"q">>}
CompletionTexts == {<<"a">>, <<"t">> \o EosStr \o EosStr}
\* An override prompt: Optional[str]; <<>> is None.
Overrides == {<<>>, <<<<"o">>>>}

ResultRows ==
    [prompts : PromptTexts, completions : CompletionTexts,
     is_modified : BOOLEAN]
ColumnSets ==
    {AllColumns, RequiredColumns}
    \cup {AllColumns \ {missing} : missing \in RequiredColumns}
DataFrames ==
    [columns : ColumnSets,
     rows : UNION {[1..n -> ResultRows] : n \in 0..MaxRows}]

\* bold_text
bold_text(text) == <<"ESC[1m">> \o text \o <<"ESC[0m">>

\* A faulty variant of has_required_columns: prompts is not asked for.
has_required_columns_but_prompts(cols) ==
    {"completions", "is_modified"} \subseteq cols

\* all(col in results.columns for col in (...))
has_required_columns(cols) == RequiredColumns \subseteq cols

\* results[results["is_modified"] == cond]
Where(rows, cond) == SelectSeq(rows, LAMBDA r : r.is_modified = cond)

count_rows(rows) ==
    [mod |-> Len(Where(rows, TRUE)), unmod |-> Len(Where(rows, FALSE))]

\* A faulty variant of counts_ok: a single group is not let through.
counts_ok_equal_only(n_mod, n_unmod) == n_mod = n_unmod

\* A faulty variant of counts_ok: an empty table is turned away.
counts_ok_some_row(n_mod, n_unmod) ==
    n_mod + n_unmod > 0 /\ (n_mod = 0 \/ n_unmod = 0 \/ n_mod = n_unmod)

\* all_normal or all_modified or (n_rows_mod == n_rows_unmod)
counts_ok(n_mod, n_unmod) ==
    LET all_modified == n_unmod = 0
        all_normal == n_mod = 0
    IN  all_normal \/ all_modified \/ n_mod = n_unmod

\* A faulty variant of completion_cols: the steered column comes first.
completion_cols_mod_first(n) ==
    (IF n.mod > 0 THEN <<mod_title>> ELSE <<>>)
    \o (IF n.unmod > 0 THEN <<normal_title>> ELSE <<>>)

completion_cols(n) ==
    (IF n.unmod > 0 THEN <<normal_title>> ELSE <<>>)
    \o (IF n.mod > 0 THEN <<mod_title>> ELSE <<>>)

\* completion_dict.values(): per column, the completions of its group.
completion_dict_values(rows, cols) ==
    [c \in 1..Len(cols) |->
        LET is_mod == cols[c] = mod_title
            group == Where(rows, is_mod)
        IN  [k \in 1..Len(group) |-> group[k].completions]]

Min(S) == CHOOSE m \in S : \A x \in S : m <= x

\* zip(*values): as many tuples as the shortest value has entries.
zip(values) ==
    IF values = <<>> THEN <<>>
    ELSE LET n == Min({Len(values[c]) : c \in 1..Len(values)})
         IN  [k \in 1..n |-> [c \in 1..Len(values) |-> values[c][k]]]

\* A faulty variant of new_row: the overrides are not looked at.
new_row_no_override(row, prompt, normal_override, mod_override, n) ==
    LET all_modified == n.unmod = 0
        all_normal == n.mod = 0
        normal_str == bold_text(prompt)
        mod_str == bold_text(prompt)
    IN  IF all_modified THEN <<mod_str \o _remove_eos(row[1])>>
        ELSE IF all_normal THEN <<normal_str \o _remove_eos(row[1])>>
        ELSE <<normal_str \o _remove_eos(row[1]),
               mod_str \o _remove_eos(row[2])>>

\* One table row, from one tuple of the zip.
new_row(row, prompt, normal_override, mod_override, n) ==
    LET all_modified == n.unmod = 0
        all_normal == n.mod = 0
        normal_str == bold_text(IF normal_override = <<>> THEN prompt
                                ELSE normal_override[1])
        mod_str == bold_text(IF mod_override = <<>> THEN prompt
                             ELSE mod_override[1])
    IN  IF all_modified THEN <<mod_str \o _remove_eos(row[1])>>
        ELSE IF all_normal THEN <<normal_str \o _remove_eos(row[1])>>
        ELSE <<normal_str \o _remove_eos(row[1]),
               mod_str \o _remove_eos(row[2])>>

\* The PrettyTable handed to print().
make_table(df, normal_override, mod_override, n) ==
    LET cols == completion_cols(n)
        prompt == df.rows[1].prompts
        tuples == zip(completion_dict_values(df.rows, cols))
    IN  [field_names |-> [c \in 1..Len(cols) |-> bold_text(cols[c])],
         rows |-> [k \in 1..Len(tuples) |->
                      new_row(tuples[k], prompt, normal_override,
                              mod_override, n)]]

PrettyInit ==
    /\ pp_pc = "columns"
    /\ results \in DataFrames
    /\ normal_prompt_override \in Overrides
    /\ mod_prompt_override \in Overrides
    /\ n_rows = <<>>
    /\ printed = <<>>
    /\ pp_exc = "none"

\* assert all(col in results.columns for col in (...))
AssertColumns ==
    /\ pp_pc = "columns"
    /\ IF has_required_columns(results.columns)
       THEN pp_pc' = "counts" /\ UNCHANGED pp_exc
       ELSE pp_pc' = "done" /\ pp_exc' = "AssertionError"
    /\ UNCHANGED <<callVars, eosVars, hcVars, xvVars, lateVars, results, normal_prompt_override,
                   mod_prompt_override, n_rows, printed>>

\* n_rows_mod, n_rows_unmod = ...; assert all_normal or all_modified or ...
AssertCounts ==
    /\ pp_pc = "counts"
    /\ IF "is_modified" \notin results.columns
       THEN pp_pc' = "done" /\ pp_exc' = "KeyError" /\ UNCHANGED n_rows
       ELSE /\ n_rows' = count_rows(results.rows)
            /\ IF counts_ok(n_rows'.mod, n_rows'.unmod)
               THEN pp_pc' = "table" /\ UNCHANGED pp_exc
               ELSE pp_pc' = "done" /\ pp_exc' = "AssertionError"
    /\ UNCHANGED <<callVars, eosVars, hcVars, xvVars, lateVars, results, normal_prompt_override,
                   mod_prompt_override, printed>>

\* The columns, the first prompt, the table and print(table).
PrintTable ==
    /\ pp_pc = "table"
    /\ IF ~ ({"prompts", "completions"} \subseteq results.columns)
       THEN pp_exc' = "KeyError" /\ UNCHANGED printed
       ELSE IF results.rows = <<>>
       THEN pp_exc' = "IndexError" /\ UNCHANGED printed
       ELSE /\ printed' = Append(printed,
                                 make_table(results, normal_prompt_override,
                                            mod_prompt_override, n_rows))
            /\ UNCHANGED pp_exc
    /\ pp_pc' = "done"
    /\ UNCHANGED <<callVars, eosVars, hcVars, xvVars, lateVars, results, normal_prompt_override,
                   mod_prompt_override, n_rows>>

InitPretty == CallOff /\ EosOff /\ HooksOff /\ XVectorOff /\ LateOff /\ PrettyInit

NextPretty ==
    \/ AssertColumns
    \/ AssertCounts
    \/ PrintTable

SpecPretty == InitPretty /\ [][NextPretty]_vars

PrettyDone == pp_pc = "done"
NMod == Len(Where(results.rows, TRUE))
NUnmod == Len(Where(results.rows, FALSE))

\* C14: on a table with the required columns, pretty_print_completions
\* ends with an assertion error, having printed nothing, exactly when the
\* table holds modified and unmodified rows in unequal numbers.
C14_AssertsOnUnequalGroups ==
    (PrettyDone /\ RequiredColumns \subseteq results.columns)
        => /\ (NMod > 0 /\ NUnmod > 0 /\ NMod # NUnmod)
                  <=> pp_exc = "AssertionError"
           /\ pp_exc = "AssertionError" => printed = <<>>

C14_Witness ==
    /\ PrettyDone
    /\ RequiredColumns \subseteq results.columns
    /\ NMod = 2
    /\ NUnmod = 1
    /\ pp_exc = "AssertionError"
    /\ printed = <<>>

\* The groups of the input table, each in input order.
Unsteered == Where(results.rows, FALSE)
Steered == Where(results.rows, TRUE)
Printed == printed # <<>>
Table == printed[1]

\* C22: a table is printed when the input has the required columns, at
\* least one row and groups that are equal or single.  It has the columns
\* unsteered, steered when both groups have rows and the one column of the
\* group present otherwise; it has one row per completion of a group; with
\* two columns row i holds the i-th unmodified and the i-th modified
\* completion of the input.
C22_TwoColumnsIffBothGroups ==
    /\ (PrettyDone /\ RequiredColumns \subseteq results.columns
            /\ results.rows # <<>>
            /\ (NMod = 0 \/ NUnmod = 0 \/ NMod = NUnmod))
           => (Printed /\ pp_exc = "none")
    /\ Printed
           => /\ Len(printed) = 1
              /\ Len(Table.field_names) \in {1, 2}
              /\ Len(Table.field_names) = 2 <=> (NMod > 0 /\ NUnmod > 0)
              /\ \A k \in 1..Len(Table.rows) :
                     Len(Table.rows[k]) = Len(Table.field_names)
              /\ IF NMod > 0 /\ NUnmod > 0
                 THEN /\ Table.field_names
                            = <<bold_text(normal_title), bold_text(mod_title)>>
                      /\ Len(Table.rows) = NUnmod
                      /\ Len(Table.rows) = NMod
                      /\ \A i \in 1..Len(Table.rows) :
                             /\ endswith(Table.rows[i][1],
                                     _remove_eos(Unsteered[i].completions))
                             /\ endswith(Table.rows[i][2],
                                     _remove_eos(Steered[i].completions))
                 ELSE /\ Table.field_names
                            = <<bold_text(IF NMod > 0 THEN mod_title
                                          ELSE normal_title)>>
                      /\ Len(Table.rows) = Len(results.rows)
                      /\ \A i \in 1..Len(Table.rows) :
                             endswith(Table.rows[i][1],
                                 _remove_eos(results.rows[i].completions))

C22_Witness ==
    /\ PrettyDone
    /\ Printed
    /\ Len(results.rows) = 4
    /\ results.rows[1].is_modified
    /\ ~ results.rows[2].is_modified
    /\ NMod = 2
    /\ Unsteered[1].completions # Unsteered[2].completions
    /\ Steered[1].completions # Steered[2].completions
    /\ Unsteered[1].completions # Steered[1].completions
    /\ Len(Table.field_names) = 2
    /\ Len(Table.rows) = 2

\* The prompt a column is printed under: its override when one is given,
\* the prompt of the first input row otherwise.
ColumnPrompt(is_mod) ==
    LET override == IF is_mod THEN mod_prompt_override
                    ELSE normal_prompt_override
    IN  IF override = <<>> THEN results.rows[1].prompts ELSE override[1]

\* The input row behind the cell in table row k of the column of a group.
CellSource(k, is_mod) == Where(results.rows, is_mod)[k]

\* C27: every printed cell is the bold prompt of its column, which is the
\* override given for the column or else the prompt of the first input
\* row, followed by the EOS-trimmed completion; the prompt of the row the
\* completion came from is not used.
C27_CellsCarryFirstPrompt ==
    Printed
        => \A k \in 1..Len(Table.rows), c \in 1..Len(Table.field_names) :
               LET is_mod == Table.field_names[c] = bold_text(mod_title)
               IN  Table.rows[k][c]
                       = bold_text(ColumnPrompt(is_mod))
                           \o _remove_eos(CellSource(k, is_mod).completions)

C27_Witness ==
    /\ Printed
    /\ NMod = 0
    /\ normal_prompt_override = <<>>
    /\ mod_prompt_override # <<>>
    /\ Len(results.rows) = 2
    /\ results.rows[2].prompts # results.rows[1].prompts
    /\ Table.rows[2][1]
           = bold_text(results.rows[1].prompts)
               \o _remove_eos(results.rows[2].completions)
    /\ Table.rows[2][1]
           # bold_text(results.rows[2].prompts)
               \o _remove_eos(results.rows[2].completions)

\* C28: on a table with the required columns and no rows,
\* pretty_print_completions gets past both assertions, counting both
\* groups as empty, and ends with an index error, nothing printed.
C28_EmptyTableIndexError ==
    (PrettyDone /\ RequiredColumns \subseteq results.columns
        /\ results.rows = <<>>)
        => /\ n_rows = [mod |-> 0, unmod |-> 0]
           /\ pp_exc = "IndexError"
           /\ printed = <<>>

C28_Witness ==
    /\ PrettyDone
    /\ results.columns = RequiredColumns
    /\ results.rows = <<>>
    /\ n_rows = [mod |-> 0, unmod |-> 0]
    /\ pp_exc = "IndexError"

\* C15: on a table that lacks prompts, completions or is_modified,
\* pretty_print_completions ends with an assertion error before it has
\* counted rows or printed anything.
C15_AssertsOnMissingColumn ==
    (PrettyDone /\ ~ (RequiredColumns \subseteq results.columns))
        => /\ pp_exc = "AssertionError"
           /\ n_rows = <<>>
           /\ printed = <<>>

C15_Witness ==
    /\ PrettyDone
    /\ "prompts" \notin results.columns
    /\ {"completions", "is_modified", "loss"} \subseteq results.columns
    /\ Len(results.rows) = 2
    /\ pp_exc = "AssertionError"

\* ================================================== the hook compiler
\* hook_utils.hook_fns_from_rich_prompts and the patch functions it
\* returns, after sections 3 and 4.2 of the design: the model dimension is
\* one, so an activation is [batch][position] and an encoding [position].
Coefficients == {-1, 2}
SourceTokens == {<<2>>, <<3>>, <<2, 3>>}

\* An Intervention Descriptor (ActivationAddition).
Descriptors ==
    [act_name : Sites, coeff : Coefficients, tokens : SourceTokens]

\* Descriptors that share a site have encodings of one length.
Compatible(rps) ==
    \A j, k \in 1..Len(rps) :
        rps[j].act_name = rps[k].act_name
            => Len(rps[j].tokens) = Len(rps[k].tokens)

DescriptorLists ==
    {rps \in UNION {[1..n -> Descriptors] : n \in 0..MaxDescriptors} :
        Compatible(rps)}

\* slice(start, stop) over 0-based positions; <<>> is None.
Slices == {[start |-> <<>>, stop |-> <<>>],
           [start |-> <<1>>, stop |-> <<>>],
           [start |-> <<>>, stop |-> <<1>>]}

in_slice(p0, sl) ==
    /\ (sl.start = <<>> \/ p0 >= sl.start[1])
    /\ (sl.stop = <<>> \/ p0 < sl.stop[1])

\* The encoded representation of a source text, one value per position.
encoded_vector(tokens) == [j \in 1..Len(tokens) |-> 2 * tokens[j] - 1]

\* One descriptor's contribution: its encoding times its coefficient.
contribution(d) ==
    LET enc == encoded_vector(d.tokens)
    IN  [j \in 1..Len(enc) |-> d.coeff * enc[j]]

\* A faulty variant of add_delta: the later descriptor overwrites.
add_delta_overwrite(a, b) == b

add_delta(a, b) == [j \in 1..Len(a) |-> a[j] + b[j]]

\* The summed delta of the descriptors of one site, taken in list order.
RECURSIVE site_delta(_, _)
site_delta(rps, site) ==
    IF rps = <<>> THEN <<>>
    ELSE LET d == rps[Len(rps)]
             before == site_delta(SubSeq(rps, 1, Len(rps) - 1), site)
         IN  IF d.act_name # site THEN before
             ELSE IF before = <<>> THEN contribution(d)
             ELSE add_delta(before, contribution(d))

\* A patch function, as the data it closes over.
hook_fns_from_rich_prompts(rps, location, sl) ==
    [site \in {rps[k].act_name : k \in 1..Len(rps)} |->
        [delta |-> site_delta(rps, site),
         addition_location |-> location,
         res_stream_slice |-> sl]]

\* A faulty variant of fits: the length is never checked.
fits_always(seq_len, enc_len) == TRUE

\* The encoding fits into the current sequence.
fits(seq_len, enc_len) == seq_len >= enc_len

\* A faulty variant of window_start: "back" is treated as "front".
window_start_front_only(location, seq_len, enc_len) == 1

\* The first position of the window the delta is added at.
window_start(location, seq_len, enc_len) ==
    IF location = "front" THEN 1 ELSE seq_len - enc_len + 1

\* The patch function invoked on an activation [batch][position].
patch_fn(fn, act) ==
    LET seq_len == Len(act[1])
        enc_len == Len(fn.delta)
        first == window_start(fn.addition_location, seq_len, enc_len)
    IN  IF ~ fits(seq_len, enc_len) THEN act
        ELSE [b \in 1..Len(act) |->
                 [p \in 1..seq_len |->
                     IF /\ p >= first
                        /\ p < first + enc_len
                        /\ in_slice(p - 1, fn.res_stream_slice)
                     THEN act[b][p] + fn.delta[p - first + 1]
                     ELSE act[b][p]]]

\* Activations: all zero, or a distinct value at every place.
ActBatches == {1, 2}
Activations ==
    UNION {{[b \in 1..n |-> [p \in 1..len |-> 0]],
            [b \in 1..n |-> [p \in 1..len |-> 10 * b + p]]} :
           n \in ActBatches, len \in 1..MaxSeqLen}

HooksInit ==
    /\ hc_pc = "compile"
    /\ rich_prompts \in DescriptorLists
    /\ addition_location \in {"front", "back"}
    /\ res_stream_slice \in Slices
    /\ compiled = <<>>
    /\ resid_pre = <<>>
    /\ patched = <<>>

Compile ==
    /\ hc_pc = "compile"
    /\ compiled' = hook_fns_from_rich_prompts(rich_prompts,
                                              addition_location,
                                              res_stream_slice)
    /\ hc_pc' = "compiled"
    /\ UNCHANGED <<callVars, eosVars, ppVars, xvVars, lateVars, rich_prompts,
                   addition_location, res_stream_slice, resid_pre, patched>>

\* The model reaches a site that has a hook and calls it.
InvokeHook(site, act) ==
    /\ hc_pc = "compiled"
    /\ site \in DOMAIN compiled
    /\ resid_pre' = [site |-> site, act |-> act]
    /\ patched' = patch_fn(compiled[site], act)
    /\ hc_pc' = "patched"
    /\ UNCHANGED <<callVars, eosVars, ppVars, xvVars, lateVars, rich_prompts,
                   addition_location, res_stream_slice, compiled>>

InitHooks == CallOff /\ EosOff /\ PrettyOff /\ XVectorOff /\ LateOff /\ HooksInit

NextHooks ==
    \/ Compile
    \/ \E site \in Sites, act \in Activations : InvokeHook(site, act)

SpecHooks == InitHooks /\ [][NextHooks]_vars

\* The delta a site is due at encoding position j: the sum, over the
\* descriptors of that site in any order, of coefficient times encoding.
RECURSIVE DueDelta(_, _, _, _)
DueDelta(rps, idx, site, j) ==
    IF idx = {} THEN 0
    ELSE LET k == CHOOSE x \in idx : TRUE
         IN  (IF rps[k].act_name = site
              THEN rps[k].coeff * encoded_vector(rps[k].tokens)[j]
              ELSE 0)
             + DueDelta(rps, idx \ {k}, site, j)

Invoked == hc_pc = "patched"
SeqLen == Len(resid_pre.act[1])
EncLen == Len(compiled[resid_pre.site].delta)
IsZero(act) == \A b \in 1..Len(act) : \A p \in 1..Len(act[b]) : act[b][p] = 0

\* C17: a patch function invoked on an activation shorter than its delta
\* returns the activation unchanged, for every batch element.
C17_TooShortIsNoOp ==
    (Invoked /\ SeqLen < EncLen)
        => \A b \in 1..Len(resid_pre.act) : patched[b] = resid_pre.act[b]

C17_Witness ==
    /\ Invoked
    /\ SeqLen = 1
    /\ EncLen = 2
    /\ Len(resid_pre.act) = 2
    /\ ~ IsZero(resid_pre.act)
    /\ addition_location = "back"
    /\ patched = resid_pre.act

\* C18: on a zero activation that is long enough, the result holds the
\* injected delta at the window (the first EncLen positions for "front",
\* the last EncLen for "back"), where the position slice allows it, for
\* every batch element, and zero everywhere else.
C18_ZeroActivationShowsDelta ==
    (Invoked /\ IsZero(resid_pre.act) /\ SeqLen >= EncLen)
        => \A b \in 1..Len(resid_pre.act) : \A p \in 1..SeqLen :
               LET offset == IF addition_location = "front" THEN 0
                             ELSE SeqLen - EncLen
                   targeted == /\ p > offset
                               /\ p <= offset + EncLen
                               /\ in_slice(p - 1, res_stream_slice)
               IN  patched[b][p]
                       = IF targeted
                         THEN DueDelta(rich_prompts, DOMAIN rich_prompts,
                                       resid_pre.site, p - offset)
                         ELSE 0

C18_Witness ==
    /\ Invoked
    /\ IsZero(resid_pre.act)
    /\ Len(resid_pre.act) = 2
    /\ SeqLen = 3
    /\ EncLen = 2
    /\ addition_location = "back"
    /\ res_stream_slice.start = <<1>>
    /\ patched[2][1] = 0
    /\ patched[2][2] # 0
    /\ patched[2][3] # 0
    /\ patched[2][2] # patched[2][3]

\* C19: the hook map has one patch function per distinct site of the
\* descriptor list, its delta is the sum of the contributions of all the
\* descriptors of that site, and compiling the list in any other order
\* gives the same map.
C19_OneSummedHookPerSite ==
    hc_pc \in {"compiled", "patched"}
        => /\ DOMAIN compiled
                  = {rich_prompts[k].act_name : k \in DOMAIN rich_prompts}
           /\ \A site \in DOMAIN compiled :
                  \A j \in 1..Len(compiled[site].delta) :
                      compiled[site].delta[j]
                          = DueDelta(rich_prompts, DOMAIN rich_prompts,
                                     site, j)
           /\ \A perm \in Permutations(DOMAIN rich_prompts) :
                  hook_fns_from_rich_prompts(
                      [k \in DOMAIN rich_prompts |-> rich_prompts[perm[k]]],
                      addition_location, res_stream_slice) = compiled

C19_Witness ==
    /\ hc_pc = "compiled"
    /\ Len(rich_prompts) = 2
    /\ rich_prompts[1].act_name = rich_prompts[2].act_name
    /\ rich_prompts[1].coeff # rich_prompts[2].coeff
    /\ rich_prompts[1].tokens # rich_prompts[2].tokens
    /\ Cardinality(DOMAIN compiled) = 1

\* ====================================================== get_x_vector
\* prompt_utils.get_x_vector, after section 4.1 of the design: a phrase
\* pair, a coefficient and a site give two descriptors.
Phrases == {<<>>, <<" a">>, <<" b", " a">>}
PairCoefficients == {-1, 0, 2}

\* act_name is a layer index or a site name.
Layers == {0, 6}
ActNames ==
    {[layer |-> <<n>>, name |-> <<>>] : n \in Layers}
    \cup {[layer |-> <<>>, name |-> <<s>>] : s \in Sites}

\* A layer index stands for the residual stream entering that block.
resid_pre_name(n) ==
    IF n = 0 THEN "blocks.0.hook_resid_pre" ELSE "blocks.6.hook_resid_pre"

resolve_act_name(a) ==
    IF a.layer # <<>> THEN resid_pre_name(a.layer[1]) ELSE a.name[1]

PadMethods == {"tokens_left", "tokens_right"}
\* custom_pad_id: Optional[int]; <<>> is None, the model's padding token.
CustomPadIds == {<<>>, <<TokId(" a")>>}

pad_id(custom) == IF custom = <<>> THEN PAD ELSE custom[1]

\* A faulty variant of pad_tokens: nothing is added.
pad_tokens_not(tokens, len, method, pad) == tokens

\* The tokens brought to length len, padded on the side the method names.
pad_tokens(tokens, len, method, pad) ==
    LET fill == [j \in 1..(len - Len(tokens)) |-> pad]
    IN  IF method = "tokens_right" THEN tokens \o fill ELSE fill \o tokens

get_x_vector(prompt1, prompt2, coeff, act_name, pad_method, custom_pad_id) ==
    LET tokens1 == Encode(prompt1)
        tokens2 == Encode(prompt2)
        len == Max({Len(tokens1), Len(tokens2)})
        pad == pad_id(custom_pad_id)
        site == resolve_act_name(act_name)
    IN  <<[act_name |-> site, coeff |-> coeff,
           tokens |-> pad_tokens(tokens1, len, pad_method, pad)],
          [act_name |-> site, coeff |-> 0 - coeff,
           tokens |-> pad_tokens(tokens2, len, pad_method, pad)]>>

XVectorInit ==
    /\ xv_pc = "start"
    /\ xv_args \in [prompt1 : Phrases, prompt2 : Phrases,
                    coeff : PairCoefficients, act_name : ActNames,
                    pad_method : PadMethods, custom_pad_id : CustomPadIds]
    /\ x_vector = <<>>

GetXVector ==
    /\ xv_pc = "start"
    /\ x_vector' = get_x_vector(xv_args.prompt1, xv_args.prompt2,
                                xv_args.coeff, xv_args.act_name,
                                xv_args.pad_method, xv_args.custom_pad_id)
    /\ xv_pc' = "done"
    /\ UNCHANGED <<callVars, eosVars, ppVars, hcVars, lateVars, xv_args>>

InitXVector ==
    CallOff /\ EosOff /\ PrettyOff /\ HooksOff /\ LateOff /\ XVectorInit

NextXVector == GetXVector

SpecXVector == InitXVector /\ [][NextXVector]_vars

\* The tokens of a phrase are kept, on the side away from the padding.
KeepsPhrase(tokens, prompt, method) ==
    LET enc == Encode(prompt)
    IN  /\ Len(tokens) >= Len(enc)
        /\ IF method = "tokens_right"
           THEN SubSeq(tokens, 1, Len(enc)) = enc
           ELSE SubSeq(tokens, Len(tokens) - Len(enc) + 1, Len(tokens)) = enc

\* C20: a steering-vector pair is exactly two descriptors at the given
\* site, the first with coefficient +c for the first phrase and the second
\* with -c for the second phrase, their token encodings padded to one
\* length.
C20_PairOfPaddedDescriptors ==
    xv_pc = "done"
        => /\ Len(x_vector) = 2
           /\ \A k \in 1..2 :
                  x_vector[k].act_name = resolve_act_name(xv_args.act_name)
           /\ x_vector[1].coeff = xv_args.coeff
           /\ x_vector[2].coeff + xv_args.coeff = 0
           /\ KeepsPhrase(x_vector[1].tokens, xv_args.prompt1,
                          xv_args.pad_method)
           /\ KeepsPhrase(x_vector[2].tokens, xv_args.prompt2,
                          xv_args.pad_method)
           /\ Len(x_vector[1].tokens) = Len(x_vector[2].tokens)

C20_Witness ==
    /\ xv_pc = "done"
    /\ xv_args.prompt1 = <<" b", " a">>
    /\ xv_args.prompt2 = <<>>
    /\ xv_args.coeff = 2
    /\ xv_args.act_name.layer = <<6>>
    /\ xv_args.pad_method = "tokens_right"
    /\ xv_args.custom_pad_id # <<>>
    /\ x_vector[2].coeff = -2
    /\ Len(x_vector[2].tokens) = 3
    /\ x_vector[2].act_name = "blocks.6.hook_resid_pre"

\* ==================================================== the sweep table
\* sweeps.make_rich_prompts, after section 4.4 of the design: phrase sets,
\* sites and coefficients give one table row per combination.
MaxPhraseSets == 2
MaxActNames == 2
MaxCoeffs == 3

\* A phrase set lists (phrase, coefficient) pairs.
PhraseSets ==
    {<<[phrase |-> " weddings", coeff |-> 1], [phrase |-> " ", coeff |-> -1]>>,
     <<[phrase |-> " love", coeff |-> 1]>>}
SweepCoefficients == {-1, 0, 1}

SeqsUpTo(S, n) == UNION {[1..k -> S] : k \in 0..n}

RECURSIVE Concat(_)
Concat(ss) == IF ss = <<>> THEN <<>> ELSE Head(ss) \o Concat(Tail(ss))

\* The descriptors of one combination: every phrase of the set at the site,
\* its coefficient scaled by the swept one.
realize(phrase_set, act_name, coeff) ==
    [k \in 1..Len(phrase_set) |->
        [prompt |-> phrase_set[k].phrase,
         coeff |-> coeff * phrase_set[k].coeff,
         act_name |-> act_name]]

sweep_row(phrase_set, act_name, coeff) ==
    [phrases |-> phrase_set, act_name |-> act_name, coeff |-> coeff,
     rich_prompts |-> realize(phrase_set, act_name, coeff)]

\* A faulty variant of coeff_rows: the coefficients are walked backwards.
coeff_rows_backwards(phrase_set, act_name, coeffs) ==
    [c \in 1..Len(coeffs) |->
        sweep_row(phrase_set, act_name, coeffs[Len(coeffs) - c + 1])]

\* Innermost loop: the coefficients, in the order given.
coeff_rows(phrase_set, act_name, coeffs) ==
    [c \in 1..Len(coeffs) |-> sweep_row(phrase_set, act_name, coeffs[c])]

\* Middle loop: the sites.
site_rows(phrase_set, act_names, coeffs) ==
    Concat([s \in 1..Len(act_names) |->
               coeff_rows(phrase_set, act_names[s], coeffs)])

\* Outer loop: the phrase sets.
make_rich_prompts(phrases, act_names, coeffs) ==
    Concat([p \in 1..Len(phrases) |->
               site_rows(phrases[p], act_names, coeffs)])

SweepInit ==
    /\ sw_pc = "start"
    /\ sw_args \in [phrases : SeqsUpTo(PhraseSets, MaxPhraseSets),
                    act_names : SeqsUpTo(Sites, MaxActNames),
                    coeffs : SeqsUpTo(SweepCoefficients, MaxCoeffs)]
    /\ rich_prompts_df = <<>>

MakeRichPrompts ==
    /\ sw_pc = "start"
    /\ rich_prompts_df' = make_rich_prompts(sw_args.phrases,
                                            sw_args.act_names, sw_args.coeffs)
    /\ sw_pc' = "done"
    /\ UNCHANGED <<callVars, eosVars, ppVars, hcVars, xvVars, twVars, ilVars,
                   pncVars, sw_args>>

InitSweep ==
    /\ CallOff /\ EosOff /\ PrettyOff /\ HooksOff /\ XVectorOff
    /\ TwiceOff /\ InterleavedOff /\ CompareOff
    /\ SweepInit

NextSweep == MakeRichPrompts

SpecSweep == InitSweep /\ [][NextSweep]_vars

\* The row index of combination (p, s, c): phrase set outer, site middle,
\* coefficient inner.
RowIndex(p, s, c) ==
    ((p - 1) * Len(sw_args.act_names) + (s - 1)) * Len(sw_args.coeffs) + c

\* C21: the table has one row per (phrase set, site, coefficient)
\* combination, P*S*C rows in all, at a position fixed by the inputs alone
\* (phrase set outer, site middle, coefficient inner), each row holding the
\* descriptors of its combination; rows of different combinations hold
\* different descriptor sets.
C21_OneRowPerCombinationInOrder ==
    sw_pc = "done"
        => /\ Len(rich_prompts_df) =
                  Len(sw_args.phrases) * Len(sw_args.act_names)
                      * Len(sw_args.coeffs)
           /\ \A p \in 1..Len(sw_args.phrases),
                 s \in 1..Len(sw_args.act_names),
                 c \in 1..Len(sw_args.coeffs) :
                  LET row == rich_prompts_df[RowIndex(p, s, c)]
                  IN  /\ row.phrases = sw_args.phrases[p]
                      /\ row.act_name = sw_args.act_names[s]
                      /\ row.coeff = sw_args.coeffs[c]
                      /\ Len(row.rich_prompts) = Len(row.phrases)
                      /\ \A k \in 1..Len(row.phrases) :
                             /\ row.rich_prompts[k].prompt
                                    = row.phrases[k].phrase
                             /\ row.rich_prompts[k].act_name = row.act_name
                             /\ row.rich_prompts[k].coeff
                                    = row.coeff * row.phrases[k].coeff
           /\ \A i, j \in 1..Len(rich_prompts_df) :
                  LET a == rich_prompts_df[i]
                      b == rich_prompts_df[j]
                  IN  <<a.phrases, a.act_name, a.coeff>>
                          # <<b.phrases, b.act_name, b.coeff>>
                      => a.rich_prompts # b.rich_prompts

C21_Witness ==
    /\ sw_pc = "done"
    /\ Len(sw_args.phrases) = 1
    /\ Len(sw_args.act_names) = 1
    /\ sw_args.coeffs = <<-1, 0, 1>>
    /\ Len(rich_prompts_df) = 3
    /\ \A c \in 1..3 : rich_prompts_df[c].coeff = sw_args.coeffs[c]
    /\ \A i, j \in 1..3 :
           i # j => rich_prompts_df[i].rich_prompts
                        # rich_prompts_df[j].rich_prompts

\* ================================================ two calls in a row
\* A caller makes an unseeded call, keeps what it returned and makes the
\* same call again on the same model; neither call meets an exception.
Remember ==
    /\ pc = "done"
    /\ outcome.kind = "returned"
    /\ last = <<>>
    /\ last' = <<[pre |-> pre, tokens_to_generate |-> tokens_to_generate,
                  seed |-> seed, results |-> outcome.results,
                  new_tokens |-> trace.new_tokens]>>
    /\ pc' = "idle"
    /\ rng_state' = 0
    /\ prompt_batch' = <<>>
    /\ hook_fns' = <<>>
    /\ tokens_to_generate' = 0
    /\ seed' = <<>>
    /\ pending' = <<>>
    /\ tokenized_prompts' = <<>>
    /\ completions' = <<>>
    /\ loss' = <<>>
    /\ exc' = "none"
    /\ outcome' = NoOutcome
    /\ pre' = NoPre
    /\ trace' = NoTrace
    /\ UNCHANGED <<hooks, rng>>
    /\ UNCHANGED <<eosVars, ppVars, hcVars, xvVars, swVars, ilVars, pncVars>>

\* A hook is on the model before the first call.
HookLeftBehind == last = <<>> /\ ManualAddHook

FirstCall(pb, hf, ttg) == last = <<>> /\ Call(pb, hf, ttg, <<>>)

SameCallAgain ==
    /\ last # <<>>
    /\ Call(last[1].pre.prompt_batch, last[1].pre.hook_fns,
            last[1].tokens_to_generate, last[1].seed)

NextTwice ==
    \/ HookLeftBehind
    \/ \E pb \in PromptBatches, hf \in OrderedDicts,
          ttg \in 0..MaxNewTokens : FirstCall(pb, hf, ttg)
    \/ Seed
    \/ Tokenize
    \/ AddHook
    \/ Generate
    \/ Finally
    \/ LossForward
    \/ Return
    \/ Remember
    \/ SameCallAgain

SpecTwice == Init /\ [][NextTwice]_vars

CompletionsOf(rs) == [i \in 1..Len(rs) |-> rs[i].completions]

\* The second call is about to generate.
AboutToGenerateAgain == last # <<>> /\ pc = "attach" /\ pending = <<>>

\* As stated, without a condition on the model's hooks: an unseeded call
\* that returns leaves the RNG as it found it, and the same unseeded call
\* made again starts generating from the same RNG state and returns the
\* same completions.
C24_UnseededRepeatSame ==
    /\ (Returned /\ seed = <<>>) => rng = pre.rng
    /\ AboutToGenerateAgain => rng = last[1].pre.rng
    /\ (last # <<>> /\ Returned)
           => CompletionsOf(outcome.results) = CompletionsOf(last[1].results)

\* C24: an unseeded call that returns leaves the RNG as it found it, and
\* the same unseeded call made again starts generating from the same RNG
\* state; it returns the same completions when the model carried no hook
\* before the first call.
C24_UnseededRepeatSameHookFree ==
    /\ (Returned /\ seed = <<>>) => rng = pre.rng
    /\ AboutToGenerateAgain => rng = last[1].pre.rng
    /\ (last # <<>> /\ Returned /\ last[1].pre.hooks = {})
           => CompletionsOf(outcome.results) = CompletionsOf(last[1].results)

C24_Witness ==
    /\ last # <<>>
    /\ Returned
    /\ seed = <<>>
    /\ last[1].pre.hooks = {}
    /\ hook_fns # <<>>
    /\ tokens_to_generate = MaxNewTokens
    /\ \E i \in Rows : Len(trace.new_tokens[i]) = MaxNewTokens
    /\ rng = last[1].pre.rng
    /\ CompletionsOf(outcome.results) = CompletionsOf(last[1].results)

\* ================================================== interleaved calls
\* Two gen_using_hooks calls on one model, their hook sessions (the try
\* block and its finally) interleaved statement by statement.  A hook on
\* the model carries the call that attached it; 0 is nobody's call.
Callers == {1, 2}

HookOf(c, item) ==
    [act_name |-> item.act_name, hook_fn |-> item.hook_fn, call |-> c]

\* The hooks of a call's hook_fns, as they sit on the model.
OwnHooks(c, hf) == {HookOf(c, hf[k]) : k \in 1..Len(hf)}

Running(c) == il_pc[c] \in {"attach", "finally"}

InterleavedInit ==
    /\ il_initial \in {{}, {HookOf(0, ManualHook)}}
    /\ il_hooks = il_initial
    /\ il_pc = [c \in Callers |-> "idle"]
    /\ il_hook_fns = [c \in Callers |-> <<>>]
    /\ il_pending = [c \in Callers |-> <<>>]
    /\ il_gen_hooks = [c \in Callers |-> <<>>]
    /\ il_alone = [c \in Callers |-> TRUE]

\* A call reaches its try block.
IlEnter(c, hf) ==
    /\ il_pc[c] = "idle"
    /\ il_pc' = [il_pc EXCEPT ![c] = "attach"]
    /\ il_hook_fns' = [il_hook_fns EXCEPT ![c] = hf]
    /\ il_pending' = [il_pending EXCEPT ![c] = hf]
    /\ il_gen_hooks' = [il_gen_hooks EXCEPT ![c] = <<>>]
    /\ il_alone' = [d \in Callers |->
                       IF d = c THEN \A e \in Callers \ {c} : ~ Running(e)
                       ELSE IF Running(d) THEN FALSE ELSE il_alone[d]]
    /\ UNCHANGED <<il_hooks, il_initial>>
    /\ UNCHANGED <<callVars, eosVars, ppVars, hcVars, xvVars, swVars, twVars,
                   pncVars>>

\* for act_name, hook_fn in hook_fns.items(): model.add_hook(...)
IlAddHook(c) ==
    /\ il_pc[c] = "attach"
    /\ il_pending[c] # <<>>
    /\ il_hooks' = add_hook(il_hooks, HookOf(c, Head(il_pending[c])))
    /\ il_pending' = [il_pending EXCEPT ![c] = Tail(il_pending[c])]
    /\ UNCHANGED <<il_pc, il_hook_fns, il_gen_hooks, il_alone, il_initial>>
    /\ UNCHANGED <<callVars, eosVars, ppVars, hcVars, xvVars, swVars, twVars,
                   pncVars>>

\* completions = model.generate(...), with the hooks then on the model.
IlGenerate(c) ==
    /\ il_pc[c] = "attach"
    /\ il_pending[c] = <<>>
    /\ il_gen_hooks' = [il_gen_hooks EXCEPT ![c] = <<il_hooks>>]
    /\ il_pc' = [il_pc EXCEPT ![c] = "finally"]
    /\ UNCHANGED <<il_hooks, il_hook_fns, il_pending, il_alone, il_initial>>
    /\ UNCHANGED <<callVars, eosVars, ppVars, hcVars, xvVars, swVars, twVars,
                   pncVars>>

\* finally: model.remove_all_hook_fns()
IlFinally(c) ==
    /\ il_pc[c] = "finally"
    /\ il_hooks' = remove_all_hook_fns(il_hooks)
    /\ il_pc' = [il_pc EXCEPT ![c] = "done"]
    /\ UNCHANGED <<il_hook_fns, il_pending, il_gen_hooks, il_alone,
                   il_initial>>
    /\ UNCHANGED <<callVars, eosVars, ppVars, hcVars, xvVars, swVars, twVars,
                   pncVars>>

\* The call has returned; its caller may call again.
IlReturn(c) ==
    /\ il_pc[c] = "done"
    /\ il_pc' = [il_pc EXCEPT ![c] = "idle"]
    /\ UNCHANGED <<il_hooks, il_hook_fns, il_pending, il_gen_hooks, il_alone,
                   il_initial>>
    /\ UNCHANGED <<callVars, eosVars, ppVars, hcVars, xvVars, swVars, twVars,
                   pncVars>>

InitInterleaved ==
    /\ CallOff /\ EosOff /\ PrettyOff /\ HooksOff /\ XVectorOff
    /\ SweepOff /\ TwiceOff /\ CompareOff
    /\ InterleavedInit

NextInterleaved ==
    \E c \in Callers :
        \/ \E hf \in OrderedDicts : IlEnter(c, hf)
        \/ IlAddHook(c)
        \/ IlGenerate(c)
        \/ IlFinally(c)
        \/ IlReturn(c)

SpecInterleaved == InitInterleaved /\ [][NextInterleaved]_vars

HasGenerated(c) == il_gen_hooks[c] # <<>>

\* C26: a call that ran its hook session with no other call under way, on
\* a model that carried no hook before any call, generated with exactly
\* the hooks of its hook_fns attached.  (That interleaved calls lose this
\* is the reachable state C26_Witness.)
C26_SequentialCallsSeeOwnHooks ==
    \A c \in Callers :
        (HasGenerated(c) /\ il_alone[c] /\ il_initial = {})
            => il_gen_hooks[c][1] = OwnHooks(c, il_hook_fns[c])

\* Interleaved: call 1 generated with the hooks of call 2 next to its own,
\* and call 2 generated after the cleanup of call 1 had removed its hooks.
C26_Witness ==
    /\ il_initial = {}
    /\ HasGenerated(1)
    /\ HasGenerated(2)
    /\ ~ il_alone[1]
    /\ ~ il_alone[2]
    /\ il_hook_fns[1] # <<>>
    /\ il_hook_fns[2] # <<>>
    /\ il_gen_hooks[1][1]
           = OwnHooks(1, il_hook_fns[1]) \cup OwnHooks(2, il_hook_fns[2])
    /\ il_gen_hooks[2][1] = {}

\* ================================================ print_n_comparisons
\* print_n_comparisons with log=False and the default addition_location
\* and res_stream_slice; the model and the RNG meet no exception.
MaxComparisons == 2

\* rich_prompts: Optional[List[ActivationAddition]]; <<>> is None.
ComparedRichPrompts ==
    {<<>>,
     <<<<>>>>,
     <<<<[act_name |-> "blocks.6.hook_resid_pre", coeff |-> 2,
          tokens |-> <<2>>]>>>>,
     <<<<[act_name |-> "blocks.6.hook_resid_pre", coeff |-> 2,
          tokens |-> <<2>>],
         [act_name |-> "blocks.0.hook_resid_pre", coeff |-> -1,
          tokens |-> <<3>>]>>>>}

\* A faulty variant of repeat_prompt: the batch holds the prompt once.
repeat_prompt_once(prompt, n) == <<prompt>>

\* [prompt] * num_comparisons
repeat_prompt(prompt, n) == [i \in 1..n |-> prompt]

\* The sites of the descriptors, each once, in order of first mention.
RECURSIVE site_order(_)
site_order(rps) ==
    IF rps = <<>> THEN <<>>
    ELSE LET before == site_order(SubSeq(rps, 1, Len(rps) - 1))
             site == rps[Len(rps)].act_name
         IN  IF \E k \in 1..Len(before) : before[k] = site THEN before
             ELSE Append(before, site)

\* The compiled hook map as gen_using_hooks receives it: its items.
hook_fn_items(rps, location, sl) ==
    LET compiled_fns == hook_fns_from_rich_prompts(rps, location, sl)
        sites == SelectSeq(site_order(rps),
                           LAMBDA s : s \in DOMAIN compiled_fns)
    IN  [k \in 1..Len(sites) |-> [act_name |-> sites[k], hook_fn |-> "patch"]]

\* A str, character by character.
piece_chars(piece) ==
    IF piece = "<|endoftext|>" THEN EosStr
    ELSE IF piece = " a" THEN <<" ", "a">>
    ELSE <<" ", "b">>

str_chars(pieces) == Concat([k \in 1..Len(pieces) |-> piece_chars(pieces[k])])

\* pd.concat(data_frames, ignore_index=True)
concat(frames) ==
    LET rows == Concat(frames)
    IN  [columns |-> UNION {Columns(rows[i]) : i \in 1..Len(rows)},
         rows |-> [i \in 1..Len(rows) |->
                      [rows[i] EXCEPT
                          !.prompts = str_chars(rows[i].prompts),
                          !.completions = str_chars(rows[i].completions)]]]

CompareInit ==
    /\ pnc_pc = "start"
    /\ pnc_args \in [prompt : Prompts,
                     num_comparisons : 0..MaxComparisons,
                     rich_prompts : ComparedRichPrompts,
                     tokens_to_generate : 0..MaxNewTokens,
                     seed : Seeds]
    /\ data_frames = <<>>
    /\ runs = <<>>

\* assert num_comparisons > 0
PncAssert ==
    /\ pnc_pc = "start"
    /\ pnc_pc' = IF pnc_args.num_comparisons > 0 THEN "normal" ELSE "raised"
    /\ UNCHANGED <<pnc_args, data_frames, runs>>
    /\ UNCHANGED <<callVars, eosVars, ppVars, hcVars, xvVars, swVars, twVars,
                   ilVars>>

\* normal_df = gen_using_hooks(prompt_batch=prompt_batch, hook_fns={}, ...)
PncCallNormal ==
    /\ pnc_pc = "normal"
    /\ Call(repeat_prompt(pnc_args.prompt, pnc_args.num_comparisons), <<>>,
            pnc_args.tokens_to_generate, pnc_args.seed)

\* mod_df = gen_using_rich_prompts(prompt_batch=prompt_batch, ...)
PncCallMod ==
    /\ pnc_pc = "mod"
    /\ Call(repeat_prompt(pnc_args.prompt, pnc_args.num_comparisons),
            hook_fn_items(pnc_args.rich_prompts[1], "front",
                          [start |-> <<>>, stop |-> <<>>]),
            pnc_args.tokens_to_generate, pnc_args.seed)

\* A call has returned: data_frames gains its DataFrame.
PncCollect ==
    /\ pnc_pc \in {"normal", "mod"}
    /\ pc = "done"
    /\ outcome.kind = "returned"
    /\ data_frames' = Append(data_frames, outcome.results)
    /\ runs' = Append(runs, [prompt_batch |-> prompt_batch,
                             hook_fns |-> hook_fns])
    /\ pnc_pc' = IF pnc_pc = "normal" /\ pnc_args.rich_prompts # <<>>
                 THEN "mod" ELSE "concat"
    /\ pc' = "idle"
    /\ rng_state' = 0
    /\ prompt_batch' = <<>>
    /\ hook_fns' = <<>>
    /\ tokens_to_generate' = 0
    /\ seed' = <<>>
    /\ pending' = <<>>
    /\ tokenized_prompts' = <<>>
    /\ completions' = <<>>
    /\ loss' = <<>>
    /\ exc' = "none"
    /\ outcome' = NoOutcome
    /\ pre' = NoPre
    /\ trace' = NoTrace
    /\ UNCHANGED <<hooks, rng, pnc_args>>
    /\ UNCHANGED <<eosVars, ppVars, hcVars, xvVars, swVars, twVars, ilVars>>

\* results = pd.concat(...); pretty_print_completions(results=results)
PncPrint ==
    /\ pnc_pc = "concat"
    /\ results' = concat(data_frames)
    /\ pp_pc' = "columns"
    /\ pnc_pc' = "print"
    /\ UNCHANGED <<normal_prompt_override, mod_prompt_override, n_rows,
                   printed, pp_exc>>
    /\ UNCHANGED <<pnc_args, data_frames, runs>>
    /\ UNCHANGED <<callVars, eosVars, hcVars, xvVars, swVars, twVars, ilVars>>

InitCompare ==
    /\ CallInit /\ EosOff /\ PrettyOff /\ HooksOff /\ XVectorOff
    /\ SweepOff /\ TwiceOff /\ InterleavedOff
    /\ CompareInit

NextCompare ==
    \/ PncAssert
    \/ PncCallNormal
    \/ PncCallMod
    \/ Seed
    \/ Tokenize
    \/ AddHook
    \/ Generate
    \/ Finally
    \/ LossForward
    \/ Return
    \/ PncCollect
    \/ PncPrint
    \/ AssertColumns
    \/ AssertCounts
    \/ PrintTable

SpecCompare == InitCompare /\ [][NextCompare]_vars

HandedOver == pnc_pc = "print"

\* C23: for num_comparisons > 0 and rich_prompts None, empty or not, the
\* first gen_using_hooks call has an empty hook map and num_comparisons
\* copies of the prompt, a second call is made exactly when rich_prompts
\* is not None and has the same batch, and the table handed to
\* pretty_print_completions has the required columns and groups that are
\* equal or single (its first num_comparisons rows are the unmodified
\* ones), so that neither assertion fails and a table is printed.
C23_ComparisonTablePassesAssertions ==
    /\ pnc_pc = "raised" <=> (pnc_pc # "start" /\ pnc_args.num_comparisons = 0)
    /\ HandedOver
          => LET n == pnc_args.num_comparisons
             IN  /\ n > 0
                 /\ Len(runs) = (IF pnc_args.rich_prompts = <<>> THEN 1 ELSE 2)
                 /\ runs[1].hook_fns = <<>>
                 /\ \A r \in 1..Len(runs) :
                        /\ Len(runs[r].prompt_batch) = n
                        /\ \A i \in 1..n :
                               runs[r].prompt_batch[i] = pnc_args.prompt
                 /\ RequiredColumns \subseteq results.columns
                 /\ Len(results.rows) = n * Len(runs)
                 /\ \A i \in 1..n : ~ results.rows[i].is_modified
                 /\ NMod = 0 \/ NMod = NUnmod
                 /\ PrettyDone => (pp_exc = "none" /\ Printed)

\* The empty list: a second run is made, with no hooks, and every row of
\* the table is unmodified.
C23_Witness ==
    /\ HandedOver
    /\ PrettyDone
    /\ pnc_args.num_comparisons = 2
    /\ pnc_args.rich_prompts = <<<<>>>>
    /\ Len(runs) = 2
    /\ Len(results.rows) = 4
    /\ NMod = 0
    /\ Printed
    /\ Len(Table.field_names) = 1
    /\ Len(Table.rows) = 4

====
